---------------------------- MODULE Spec2Model ----------------------------
(***************************************************************************)
(* A model of the food journal: the IndexedDB persistence layer            *)
(* (services/db.ts), the timeline page that reads it, the meal type         *)
(* heuristic (utils/mealUtils.ts), and the speech adapter with the voice    *)
(* input of the add-meal page (services/speech.ts, VoiceInput.tsx,          *)
(* AddMealPage.tsx).                                                        *)
(*                                                                         *)
(* Object stores are functions from keys to records.  Record ids stand for  *)
(* crypto.randomUUID() values: a fresh id is any id not in the store, and   *)
(* the order of the ids is the key order in which IndexedDB returns the     *)
(* records of a store.  Timestamps are small naturals.                      *)
(***************************************************************************)
EXTENDS Naturals, Integers, Sequences, FiniteSets, TLC

\* ------------------------------------------------------------------ bounds
MaxMeals == 2            \* meal ids of the store specification
MaxFlareups == 1         \* flare-up ids
MaxTime == 1             \* meal timestamps are 0..MaxTime, flare-up timestamps one more
MaxCorrelateMeals == 7   \* meal ids of the correlation specification
MaxListed == 3           \* record ids of a store of the listing specification
MaxSessions == 2         \* startSpeechRecognition calls
MaxStops == 3            \* calls a caller makes of one returned stop function
MaxDeliveries == 3       \* handleVoiceTranscript calls in a row
MaxMounts == 2           \* VoiceInput components mounted one after another
MaxConnections == 2      \* connections counted before the count stops
MaxSettingsCalls == 2    \* updateSettings calls between their read and their write
MaxSaveCalls == 2        \* addMeal calls of handleSave pending at once

MealIds == 1..MaxMeals
FlareupIds == 1..MaxFlareups
Times == 0..MaxTime
FlareupTimes == 0..(MaxTime + 1)

\* ------------------------------------------------------- program constants
STORES == [MEALS |-> "meals", FLAREUPS |-> "flareups", SETTINGS |-> "settings"]
SETTINGS_KEY == "app-settings"
DEFAULT_SETTINGS ==
    [notifications |-> [enabled |-> FALSE, permission |-> "default", times |-> <<>>],
     export |-> [lastExportDate |-> 0],
     theme |-> "auto"]
\* the number of meals addFlareup associates (db.ts: getMealsBeforeTimestamp(.., 6))
WindowSize == 6

VARIABLES
    meals,        \* object store 'meals': id -> Meal
    flareups,     \* object store 'flareups': id -> Flareup
    settings,     \* object store 'settings': key -> Settings
    flareupCall,  \* the addFlareup call in flight between its read and its write
    clearCall,    \* the clearAllData transaction in flight, and its last outcome
    activePage,   \* App: which page is mounted
    tlMeals,      \* TimelinePage state: meals
    tlFlareups,   \* TimelinePage state: flareups
    now,          \* the Date read by the last guessMealType() call
    mealType,     \* AddMealPage state: mealType
    description,  \* AddMealPage state: description
    inputMode,    \* AddMealPage state: inputMode
    supported,    \* whether the browser has a SpeechRecognition constructor
    sessions,     \* the startSpeechRecognition calls made, in order
    voiceInput,   \* VoiceInput state: isListening, stopRecognition
    heard,        \* the description last set by hand, and what
                  \* handleVoiceTranscript was called with since
    raised,       \* whether an exception escaped a call of a stop function
    saveSuccess,  \* AddMealPage state: saveSuccess (a saved form awaits its reset)
    tags,         \* AddMealPage state: tags, the TagSelector's selectedTags
    customTagInput, \* TagSelector state: customTagInput
    isSaving,     \* AddMealPage state: isSaving
    saveCalls,    \* the addMeal calls of handleSave in flight
    settingsCalls, \* the updateSettings calls in flight between read and write
    recentMeals,  \* FlareupLogger state: recentMeals, the preview
    connections,  \* how many connections initDB has opened, up to MaxConnections
    dbCall        \* the last call a caller of the db module made, and its result

storeVars == <<meals, flareups, settings, flareupCall, clearCall,
               activePage, tlMeals, tlFlareups>>
tagVars == <<tags, customTagInput>>
pageVars == <<now, mealType, description, inputMode, supported, sessions,
              voiceInput, heard, raised, saveSuccess, tagVars>>
pendingVars == <<isSaving, saveCalls, settingsCalls, recentMeals>>
vars == <<storeVars, pageVars, pendingVars, connections, dbCall>>

\* --------------------------------------------------------- store helpers
\* the pending calls without the call at i, which has settled
removeAt(seq, i) == SubSeq(seq, 1, i - 1) \o SubSeq(seq, i + 1, Len(seq))
\* initDB: openDB(DB_NAME, DB_VERSION, ..) on every call; n connections have
\* been opened before, counted up to MaxConnections
initDB(n) == IF n < MaxConnections THEN n + 1 ELSE n

EmptyStore == [k \in {} |-> k]
StorePut(store, key, value) ==
    [k \in DOMAIN store \cup {key} |-> IF k = key THEN value ELSE store[k]]
\* mutant: a delete of a key that is not there takes the first record instead
StoreDeleteSome(store, key) ==
    [k \in DOMAIN store \ {IF key \in DOMAIN store \/ DOMAIN store = {}
                            THEN key
                            ELSE CHOOSE x \in DOMAIN store : \A y \in DOMAIN store : x <= y}
        |-> store[k]]
StoreDelete(store, key) == [k \in DOMAIN store \ {key} |-> store[k]]

SetMin(S) == CHOOSE x \in S : \A y \in S : x <= y
MinOf(a, b) == IF a <= b THEN a ELSE b

\* db.getAll(store): every record of the store, in ascending key order
RECURSIVE getAllFrom(_, _)
getAllFrom(store, keys) ==
    IF keys = {} THEN <<>>
    ELSE LET k == SetMin(keys)
         IN <<store[k]>> \o getAllFrom(store, keys \ {k})
getAll(store) == getAllFrom(store, DOMAIN store)

\* mutant: the comparator of an ascending sort
byTimestampAsc(a, b) == a.timestamp - b.timestamp
\* the comparator (a, b) => b.timestamp - a.timestamp
byTimestampDesc(a, b) == b.timestamp - a.timestamp

\* Array.prototype.sort with that comparator.  The sort is stable: x, which
\* comes after every element of s in the input, goes behind the elements it
\* does not have to precede (comparator <= 0).
RECURSIVE sortInsert(_, _)
sortInsert(x, s) ==
    IF s = <<>> THEN <<x>>
    ELSE IF byTimestampDesc(Head(s), x) <= 0
         THEN <<Head(s)>> \o sortInsert(x, Tail(s))
         ELSE <<x>> \o s
RECURSIVE sort(_)
sort(seq) ==
    IF seq = <<>> THEN <<>>
    ELSE sortInsert(seq[Len(seq)], sort(SubSeq(seq, 1, Len(seq) - 1)))

\* Array.prototype.slice(0, n)
\* mutant: the last n elements
sliceEnd(seq, n) == SubSeq(seq, Len(seq) - MinOf(n, Len(seq)) + 1, Len(seq))
slice(seq, n) == SubSeq(seq, 1, MinOf(n, Len(seq)))

\* ------------------------------------------------------- meal operations
\* { ...meal, id } written with db.add
addMeal(store, meal, id) == StorePut(store, id, [id |-> id] @@ meal)
getMeals(store) == sort(getAll(store))
getLastNMeals(store, n) == slice(getMeals(store), n)
\* mutant: the meals at the flare-up's own timestamp are kept too
getMealsUpToTimestamp(store, beforeTime, limit) ==
    slice(SelectSeq(getMeals(store), LAMBDA meal : meal.timestamp <= beforeTime), limit)
getMealsBeforeTimestamp(store, beforeTime, limit) ==
    slice(SelectSeq(getMeals(store), LAMBDA meal : meal.timestamp < beforeTime), limit)
deleteMeal(store, id) == StoreDelete(store, id)
\* update(record): full-record replace keyed by id; fails when the id is absent
updateMealOk(store, meal) == meal.id \in DOMAIN store
updateMeal(store, meal) == IF updateMealOk(store, meal) THEN StorePut(store, meal.id, meal) ELSE store

\* ---------------------------------------------------- flare-up operations
mapIds(seq) == [i \in 1..Len(seq) |-> seq[i].id]
\* addFlareup up to its write: the associations read from the meal store
addFlareupRead(mealStore, flareup) ==
    mapIds(getMealsBeforeTimestamp(mealStore, flareup.timestamp, WindowSize))
\* mutant: the record is written before its associations are known
addFlareupWriteBare(store, flareup, id, associatedMealIds) ==
    StorePut(store, id, [id |-> id, associatedMealIds |-> <<>>] @@ flareup)
\* addFlareup's write: db.add of the record with id and associations
addFlareupWrite(store, flareup, id, associatedMealIds) ==
    StorePut(store, id, [id |-> id, associatedMealIds |-> associatedMealIds] @@ flareup)
getFlareups(store) == sort(getAll(store))
deleteFlareup(store, id) == StoreDelete(store, id)

\* ---------------------------------------------------- settings operations
getSettings(store) == IF SETTINGS_KEY \in DOMAIN store THEN store[SETTINGS_KEY] ELSE DEFAULT_SETTINGS
\* mutant: a read that writes the defaults it falls back to
storeAfterCreatingDefaults(store) ==
    IF SETTINGS_KEY \in DOMAIN store THEN store
    ELSE [k \in {SETTINGS_KEY} |-> DEFAULT_SETTINGS]
\* the settings store after getSettings: it reads with db.get and writes nothing
storeAfterGetSettings(store) == store
\* mutant: the nested objects are merged field by field
deepMerge(current, updates) ==
    [k \in DOMAIN current \cup DOMAIN updates |->
        IF k \notin DOMAIN updates THEN current[k]
        ELSE IF k \in DOMAIN current /\ k \in {"notifications", "export"}
        THEN [f \in DOMAIN current[k] \cup DOMAIN updates[k] |->
                 IF f \in DOMAIN updates[k] THEN updates[k][f] ELSE current[k][f]]
        ELSE updates[k]]
\* { ...current, ...updates }
shallowMerge(current, updates) ==
    [k \in DOMAIN current \cup DOMAIN updates |->
        IF k \in DOMAIN updates THEN updates[k] ELSE current[k]]
updateSettings(store, updates) ==
    StorePut(store, SETTINGS_KEY, shallowMerge(getSettings(store), updates))

\* --------------------------------------------------------------- mealUtils
\* a Date, as far as guessMealType reads it
Dates == [hours : 0..23, minutes : 0..59]
getHours(date) == date.hours
\* (the code compares the hour with 10.5: twice the hour with 21 here)
guessMealType(date) ==
    LET hour == getHours(date)
    IN IF hour >= 5 /\ 2 * hour < 21 THEN "breakfast"
       ELSE IF 2 * hour >= 21 /\ hour < 15 THEN "lunch"
       ELSE IF hour >= 15 /\ hour < 21 THEN "dinner"
       ELSE "snack"

\* ----------------------------------------------------------------- strings
\* a string is the sequence of its characters
Space == <<" ">>
RECURSIVE trimStart(_)
trimStart(str) == IF str # <<>> /\ Head(str) = " " THEN trimStart(Tail(str)) ELSE str
RECURSIVE trimEnd(_)
trimEnd(str) ==
    IF str # <<>> /\ str[Len(str)] = " "
    THEN trimEnd(SubSeq(str, 1, Len(str) - 1))
    ELSE str
trim(str) == trimEnd(trimStart(str))

\* ------------------------------------------------------------------ speech
\* mutant: the support check answers yes everywhere
AlwaysSupported == TRUE
\* A session is one call of startSpeechRecognition: the component whose
\* callbacks it was given, where its recognition stands, how often onError and
\* onEnd have been called, and how often a caller that counts has called the
\* returned function, in all and after the session was over.
NoComponent == 0
isSpeechRecognitionSupported == supported
Session(component, phase, onError) ==
    [component |-> component, phase |-> phase, onError |-> onError, onEnd |-> 0,
     stopCalls |-> 0, lateStopCalls |-> 0]
\* the call: without a constructor, or when recognition.start() throws,
\* onError is called and a no-op is returned
startSpeechRecognition(component, startThrows) ==
    IF ~isSpeechRecognitionSupported THEN Session(component, "failed", 1)
    ELSE IF startThrows THEN Session(component, "failed", 1)
    ELSE Session(component, "started", 0)

\* recognition.onresult: the onResult calls it makes for an event (the
\* results from event.resultIndex on), none or one
RECURSIVE finalTranscript(_)
finalTranscript(results) ==
    IF results = <<>> THEN <<>>
    ELSE (IF Head(results).isFinal THEN Head(results).transcript \o Space ELSE <<>>)
         \o finalTranscript(Tail(results))
RECURSIVE interimTranscript(_)
interimTranscript(results) ==
    IF results = <<>> THEN <<>>
    ELSE (IF Head(results).isFinal THEN <<>> ELSE Head(results).transcript)
         \o interimTranscript(Tail(results))
onresult(results) ==
    IF finalTranscript(results) # <<>>
    THEN <<[transcript |-> trim(finalTranscript(results)), isFinal |-> TRUE]>>
    ELSE IF interimTranscript(results) # <<>>
    THEN <<[transcript |-> trim(interimTranscript(results)), isFinal |-> FALSE]>>
    ELSE <<>>

\* recognition.stop(): a started recognition stops, any other ignores it
recognitionStop(session) ==
    IF session.phase = "started" THEN [session EXCEPT !.phase = "stopping"] ELSE session
\* mutant: the returned function without its try/catch
stopUncaught(session, stopThrows) ==
    [session |-> IF session.phase = "failed" \/ stopThrows
                 THEN session ELSE recognitionStop(session),
     raised |-> session.phase # "failed" /\ stopThrows]
\* the returned function: a no-op after a failed call, else recognition.stop()
\* with whatever it throws caught
stop(session, stopThrows) ==
    [session |-> IF session.phase = "failed" \/ stopThrows
                 THEN session ELSE recognitionStop(session),
     raised |-> FALSE]
\* a session is over when no event of it is to come
Over(session) == session.phase \in {"ended", "failed"}

\* ------------------------------------------------------------- AddMealPage
\* the state a mounted AddMealPage starts in, with no VoiceInput under it
NoVoiceInput(key) == [key |-> key, isListening |-> FALSE, stopRecognition |-> 0]
NothingHeard(text) == [base |-> text, calls |-> <<>>]
\* mutant: interim transcripts are appended too
handleVoiceTranscriptAll(prev, transcript, isFinal) ==
    IF prev # <<>> THEN prev \o Space \o transcript ELSE transcript
handleVoiceTranscript(prev, transcript, isFinal) ==
    IF isFinal
    THEN (IF prev # <<>> THEN prev \o Space \o transcript ELSE transcript)
    ELSE prev

\* ------------------------------------------------------------- TagSelector
\* strings are sequences of characters
PREDEFINED_TAGS ==
    <<<<"d", "a", "i", "r", "y">>,
      <<"g", "l", "u", "t", "e", "n">>,
      <<"s", "p", "i", "c", "y">>,
      <<"a", "l", "c", "o", "h", "o", "l">>,
      <<"p", "o", "u", "l", "t", "r", "y">>,
      <<"b", "e", "e", "f", "/", "l", "a", "m", "b">>,
      <<"p", "o", "r", "k">>,
      <<"f", "i", "s", "h">>,
      <<"s", "h", "e", "l", "l", "f", "i", "s", "h">>,
      <<"m", "a", "y", "o", "-", "b", "a", "s", "e", "d">>,
      <<"f", "r", "i", "e", "d">>,
      <<"o", "i", "l", "y">>>>
\* the prefix of `custom: ${trimmed}`
customPrefix == <<"c", "u", "s", "t", "o", "m", ":", " ">>
\* Array.prototype.includes
includes(seq, x) == \E i \in 1..Len(seq) : seq[i] = x
\* String.prototype.startsWith
startsWith(str, prefix) ==
    /\ Len(str) >= Len(prefix)
    /\ SubSeq(str, 1, Len(prefix)) = prefix
\* the places where pattern occurs in str
occurrences(str, pattern) ==
    {i \in 1..(Len(str) - Len(pattern) + 1) :
        SubSeq(str, i, i + Len(pattern) - 1) = pattern}
\* mutant: every occurrence of the pattern is replaced
RECURSIVE replaceAll(_, _, _)
replaceAll(str, pattern, replacement) ==
    IF occurrences(str, pattern) = {} THEN str
    ELSE LET i == SetMin(occurrences(str, pattern))
         IN SubSeq(str, 1, i - 1) \o replacement
               \o replaceAll(SubSeq(str, i + Len(pattern), Len(str)), pattern, replacement)
\* String.prototype.replace with a string pattern: the first occurrence only
replace(str, pattern, replacement) ==
    IF occurrences(str, pattern) = {} THEN str
    ELSE LET i == SetMin(occurrences(str, pattern))
         IN SubSeq(str, 1, i - 1) \o replacement
               \o SubSeq(str, i + Len(pattern), Len(str))
\* selectedTags.filter((tag) => tag.startsWith('custom: '))
customTags(selectedTags) == SelectSeq(selectedTags, LAMBDA tag : startsWith(tag, customPrefix))
\* the chip's label: tag.replace('custom: ', '')
label(tag) == replace(tag, customPrefix, <<>>)
\* toggleTag's new selection
toggled(selectedTags, tag) ==
    IF includes(selectedTags, tag)
    THEN SelectSeq(selectedTags, LAMBDA t : t # tag)
    ELSE Append(selectedTags, tag)

\* ------------------------------------------------------------ TimelinePage
Undefined == [undefined |-> TRUE]
\* Array.prototype.find(m => m.id === id)
find(seq, id) ==
    IF \E i \in 1..Len(seq) : seq[i].id = id
    THEN seq[SetMin({i \in 1..Len(seq) : seq[i].id = id})]
    ELSE Undefined
Boolean(x) == x # Undefined
\* mutant: the meals that are not found are not filtered out
getAssociatedMealsUnfiltered(flareup, mealsState) ==
    [i \in 1..Len(flareup.associatedMealIds) |->
        find(mealsState, flareup.associatedMealIds[i])]
\* flareup.associatedMealIds.map(id => meals.find(..)).filter(Boolean)
getAssociatedMeals(flareup, mealsState) ==
    SelectSeq([i \in 1..Len(flareup.associatedMealIds) |->
                  find(mealsState, flareup.associatedMealIds[i])], Boolean)
filterOutId(seq, id) == SelectSeq(seq, LAMBDA r : r.id # id)

\* the length of a calendar day in timestamp units
DayLength == 2
\* formatDate(timestamp): one label per calendar day ('Today', 'Yesterday' or
\* format(date, 'MMMM d, yyyy')); the label is modelled by the day's number
formatDate(timestamp) == timestamp \div DayLength
tagItems(seq, itemType) ==
    [i \in 1..Len(seq) |-> [itemType |-> itemType] @@ seq[i]]
\* mutant: the flare-ups spread before the meals
taggedItemsFlareupsFirst(mealsState, flareupsState) ==
    [i \in 1..(Len(mealsState) + Len(flareupsState)) |->
        IF i <= Len(flareupsState)
        THEN [itemType |-> "flareup"] @@ flareupsState[i]
        ELSE [itemType |-> "meal"] @@ mealsState[i - Len(flareupsState)]]
\* [...meals.map(m => ({...m, itemType: 'meal'})),
\*  ...flareups.map(f => ({...f, itemType: 'flareup'}))]
taggedItems(mealsState, flareupsState) ==
    tagItems(mealsState, "meal") \o tagItems(flareupsState, "flareup")
\* timelineItems: the tagged items, .sort((a, b) => b.timestamp - a.timestamp)
timelineItems(mealsState, flareupsState) ==
    sort(taggedItems(mealsState, flareupsState))
\* groups[dateKey].push(item), the bucket created on the first item of its day;
\* the groups object is a sequence of buckets in the order of their creation
pushItem(groups, item) ==
    LET dateKey == formatDate(item.timestamp) IN
    IF \E g \in 1..Len(groups) : groups[g].dateKey = dateKey
    THEN [g \in 1..Len(groups) |->
             IF groups[g].dateKey = dateKey
             THEN [groups[g] EXCEPT !.items = Append(@, item)]
             ELSE groups[g]]
    ELSE Append(groups, [dateKey |-> dateKey, items |-> <<item>>])
RECURSIVE reduceItems(_, _)
reduceItems(groups, items) ==
    IF items = <<>> THEN groups
    ELSE reduceItems(pushItem(groups, Head(items)), Tail(items))
\* groupedItems = timelineItems.reduce(.., {})
groupedItems(items) == reduceItems(<<>>, items)
idsOf(seq) == {seq[i].id : i \in 1..Len(seq)}
Range(seq) == {seq[i] : i \in 1..Len(seq)}

NoCall == [open |-> FALSE]
NoDbCall == [fn |-> "none"]
ClearIdle(last) == [open |-> FALSE, cleared |-> {}, last |-> last]
ClearOpen == clearCall.open
TimelineMounted == activePage = "timeline"

\* loadMeals: both collections read and put in the page's state; the state
\* of an unmounted page is gone
loadMeals(mealStore, flareupStore, page) ==
    /\ tlMeals' = IF page = "timeline" THEN getMeals(mealStore) ELSE <<>>
    /\ tlFlareups' = IF page = "timeline" THEN getFlareups(flareupStore) ELSE <<>>

\* BottomNav: the page is replaced; a mounted TimelinePage loads its data, an
\* AddMealPage starts afresh, and the callbacks of the sessions that run on
\* reach no mounted component any more
Navigate(page) ==
    /\ ~ClearOpen
    /\ page # activePage
    /\ activePage' = page
    /\ loadMeals(meals, flareups, page)
    /\ flareupCall' = IF flareupCall.open
                      THEN [flareupCall EXCEPT !.mounted = FALSE]
                      ELSE flareupCall
    /\ description' = <<>>
    /\ mealType' = guessMealType(now)
    /\ inputMode' = "text"
    /\ voiceInput' = NoVoiceInput(voiceInput.key)
    /\ heard' = NothingHeard(<<>>)
    /\ sessions' = [s \in DOMAIN sessions |-> [sessions[s] EXCEPT !.component = NoComponent]]
    /\ saveSuccess' = FALSE
    /\ tags' = <<>>
    /\ customTagInput' = <<>>
    /\ dbCall' = NoDbCall
    /\ isSaving' = FALSE
    /\ saveCalls' = [c \in DOMAIN saveCalls |-> [saveCalls[c] EXCEPT !.mounted = FALSE]]
    /\ recentMeals' = <<>>
    /\ connections' = IF page = "timeline" THEN initDB(initDB(connections))
                      ELSE connections
    /\ UNCHANGED <<meals, flareups, settings, clearCall, now, supported, raised,
                   settingsCalls>>

\* the validation of the three forms: !description.trim()
\* mutant: no text is taken for blank
neverBlank(text) == FALSE
isBlank(text) == trim(text) = <<>>
\* alert(..): the message box a handler shows before it returns, noted until
\* the next save, the next change of the text or the next page
Alert(form) == [fn |-> "alert", form |-> form]

\* the argument of addMeal in handleSave: { timestamp: Date.now(),
\* type: 'text', mealType, description: description.trim(), notes, tags }
mealData(timestamp) ==
    [timestamp |-> timestamp,
     type |-> "text",
     mealType |-> mealType,
     description |-> trim(description),
     tags |-> tags]

\* AddMealPage.handleSave at the time meal.timestamp: the validation, then
\* addMeal and the success banner
AddMealPage_handleSave(meal, id) ==
    /\ ~ClearOpen
    /\ activePage = "add-meal"
    /\ IF isBlank(description)
       THEN /\ dbCall' = Alert("AddMealPage")
            /\ UNCHANGED <<meals, saveSuccess>>
       ELSE /\ id \notin DOMAIN meals
            /\ meals' = addMeal(meals, mealData(meal.timestamp), id)
            /\ saveSuccess' = TRUE
            /\ dbCall' = NoDbCall
    /\ connections' = IF isBlank(description) THEN connections
                      ELSE initDB(connections)
    /\ UNCHANGED <<flareups, settings, flareupCall, clearCall, activePage,
                   tlMeals, tlFlareups, pendingVars>>
    /\ UNCHANGED <<now, mealType, description, inputMode, supported, sessions,
                   voiceInput, heard, raised, tagVars>>

\* AddMealPage.handleSave up to `await addMeal(..)`: the validation, then
\* setIsSaving(true) and the call, which stays pending
handleSave(timestamp) ==
    /\ ~ClearOpen
    /\ IF isBlank(description)
       THEN /\ dbCall' = Alert("AddMealPage")
            /\ UNCHANGED <<isSaving, saveCalls, connections>>
       ELSE /\ Len(saveCalls) < MaxSaveCalls
            /\ isSaving' = TRUE
            /\ saveCalls' = Append(saveCalls, [meal |-> mealData(timestamp),
                                               mounted |-> TRUE])
            /\ connections' = initDB(connections)
            /\ dbCall' = NoDbCall
    /\ UNCHANGED <<storeVars, pageVars, settingsCalls, recentMeals>>

\* the Save button, type="submit", disabled={!description.trim() || isSaving}:
\* the form's onSubmit calls handleSave
AddMealPage_onSubmit(timestamp) ==
    /\ activePage = "add-meal"
    /\ ~(isBlank(description) \/ isSaving)
    /\ handleSave(timestamp)

\* handleDescriptionKeyDown with Cmd/Ctrl+Enter in the description field,
\* which is there in text mode: handleSave
AddMealPage_handleDescriptionKeyDown(timestamp) ==
    /\ activePage = "add-meal"
    /\ inputMode = "text"
    /\ handleSave(timestamp)

\* what a handler's catch block shows when the db call it awaited rejected:
\* alert('Failed to save ...'); mounted: the component is still there
Failed(form, mounted) == [fn |-> "failed", form |-> form, mounted |-> mounted]
\* mutant: the add that fails has written its record
storeAfterFailedAddKept(store, record, id) == StorePut(store, id, [id |-> id] @@ record)
\* db.add rejects: the transaction is aborted, the store is as it was
storeAfterFailedAdd(store, record, id) == store

\* the pending addMeal call c settles, and handleSave goes on: resolved (ok),
\* the record is in the store under the id, the success banner is set; or
\* rejected, the catch block alerts; finally setIsSaving(false).  State is
\* set on the component that made the call if it is still mounted.
addMealSettled(c, id, ok) ==
    /\ ~ClearOpen
    /\ c \in DOMAIN saveCalls
    /\ id \notin DOMAIN meals
    /\ saveCalls' = removeAt(saveCalls, c)
    /\ meals' = IF ok THEN addMeal(meals, saveCalls[c].meal, id)
                ELSE storeAfterFailedAdd(meals, saveCalls[c].meal, id)
    /\ saveSuccess' = IF ok /\ saveCalls[c].mounted THEN TRUE ELSE saveSuccess
    /\ isSaving' = IF saveCalls[c].mounted THEN FALSE ELSE isSaving
    /\ dbCall' = IF ok THEN NoDbCall ELSE Failed("AddMealPage", saveCalls[c].mounted)
    /\ UNCHANGED <<flareups, settings, flareupCall, clearCall, activePage,
                   tlMeals, tlFlareups, settingsCalls, recentMeals, connections>>
    /\ UNCHANGED <<now, mealType, description, inputMode, supported, sessions,
                   voiceInput, heard, raised, tagVars>>

\* the timer handleSave sets after a save (500 ms): the form is cleared under
\* the success banner, at the time date; the input mode stays
AddMealPage_resetAfterSave(date) ==
    /\ activePage = "add-meal"
    /\ saveSuccess
    /\ description' = <<>>
    /\ now' = date
    /\ mealType' = guessMealType(date)
    /\ saveSuccess' = FALSE
    /\ heard' = NothingHeard(<<>>)
    /\ tags' = <<>>
    /\ UNCHANGED <<inputMode, supported, sessions, voiceInput, raised>>
    /\ UNCHANGED <<storeVars, pendingVars, connections, customTagInput, dbCall>>

\* mutant: a delete that cascades into the flare-ups' associations
handleDeleteMealCascade(id) ==
    /\ ~ClearOpen
    /\ TimelineMounted
    /\ id \in idsOf(tlMeals)
    /\ meals' = deleteMeal(meals, id)
    /\ tlMeals' = filterOutId(tlMeals, id)
    /\ flareups' = [f \in DOMAIN flareups |->
                       [flareups[f] EXCEPT !.associatedMealIds =
                           SelectSeq(@, LAMBDA m : m # id)]]
    /\ UNCHANGED <<settings, flareupCall, clearCall, activePage, tlFlareups>>
    /\ UNCHANGED <<pageVars, pendingVars, dbCall>>
    /\ connections' = initDB(connections)

\* TimelinePage.handleDeleteMeal, confirmed: deleteMeal, then setMeals(filter)
handleDeleteMeal(id) ==
    /\ ~ClearOpen
    /\ TimelineMounted
    /\ id \in idsOf(tlMeals)
    /\ meals' = deleteMeal(meals, id)
    /\ tlMeals' = filterOutId(tlMeals, id)
    /\ UNCHANGED <<flareups, settings, flareupCall, clearCall, activePage, tlFlareups>>
    /\ UNCHANGED <<pageVars, pendingVars, dbCall>>
    /\ connections' = initDB(connections)

\* TimelinePage.handleDeleteFlareup, confirmed
handleDeleteFlareup(id) ==
    /\ ~ClearOpen
    /\ TimelineMounted
    /\ id \in idsOf(tlFlareups)
    /\ flareups' = deleteFlareup(flareups, id)
    /\ tlFlareups' = filterOutId(tlFlareups, id)
    /\ UNCHANGED <<meals, settings, flareupCall, clearCall, activePage, tlMeals>>
    /\ UNCHANGED <<pageVars, pendingVars, dbCall>>
    /\ connections' = initDB(connections)

\* MealEditor.handleSave on the meal opened from the timeline, then
\* handleMealSaved's reload
\* mutant: the edited record gets a new type
editedMealRetyped(meal, timestamp, text) ==
    [timestamp |-> timestamp, description |-> trim(text),
     type |-> IF meal.type = "text" THEN "voice" ELSE "text"] @@ meal
\* { ...meal, timestamp, mealType, description: description.trim(), .. } with
\* the form's date and time and its description text
editedMeal(meal, timestamp, text) ==
    [timestamp |-> timestamp, description |-> trim(text)] @@ meal
MealEditor_handleSave(i, timestamp, text) ==
    /\ ~ClearOpen
    /\ TimelineMounted
    /\ i \in 1..Len(tlMeals)
    /\ IF isBlank(text)
       THEN /\ dbCall' = Alert("MealEditor")
            /\ UNCHANGED <<meals, tlMeals, tlFlareups>>
       ELSE LET meal == tlMeals[i]
                edited == editedMeal(meal, timestamp, text)
            IN /\ edited # meal
               /\ meals' = updateMeal(meals, edited)
               /\ loadMeals(meals', flareups, activePage)
               /\ dbCall' = NoDbCall
    /\ UNCHANGED <<flareups, settings, flareupCall, clearCall, activePage>>
    /\ UNCHANGED <<pageVars, pendingVars>>
    /\ connections' = IF isBlank(text) THEN connections
                      ELSE initDB(initDB(initDB(connections)))

\* MealEditor.handleDelete, confirmed, then handleMealSaved's reload
MealEditor_handleDelete(i) ==
    /\ ~ClearOpen
    /\ TimelineMounted
    /\ i \in 1..Len(tlMeals)
    /\ meals' = deleteMeal(meals, tlMeals[i].id)
    /\ loadMeals(meals', flareups, activePage)
    /\ UNCHANGED <<flareups, settings, flareupCall, clearCall, activePage>>
    /\ UNCHANGED <<pageVars, pendingVars, dbCall>>
    /\ connections' = initDB(initDB(initDB(connections)))

\* the number of meals the logger's preview asks for: getLastNMeals(8)
PreviewSize == 8
\* FlareupLogger opened from the timeline: the effect on isOpen calls
\* loadRecentMeals, which puts the last meals in the preview ("Recent Meals
\* (will be associated)")
FlareupLogger_loadRecentMeals ==
    /\ ~ClearOpen
    /\ TimelineMounted
    /\ ~flareupCall.open
    /\ recentMeals' = getLastNMeals(meals, PreviewSize)
    /\ connections' = initDB(connections)
    /\ dbCall' = NoDbCall
    /\ UNCHANGED <<storeVars, pageVars, isSaving, saveCalls, settingsCalls>>

\* FlareupLogger.handleSave up to addFlareup's write: the meals are read.
\* (The number of flare-ups logged is capped by the ids there are.)
FlareupLogger_handleSave(flareup) ==
    /\ ~ClearOpen
    /\ TimelineMounted
    /\ ~flareupCall.open
    /\ IF isBlank(flareup.description)
       THEN /\ dbCall' = Alert("FlareupLogger")
            /\ UNCHANGED flareupCall
       ELSE LET entry == [timestamp |-> flareup.timestamp,
                          description |-> trim(flareup.description)]
            IN /\ Cardinality(DOMAIN flareups) < MaxFlareups
               /\ flareupCall' = [open |-> TRUE, mounted |-> TRUE, flareup |-> entry,
                                  associatedMealIds |-> addFlareupRead(meals, entry)]
               /\ dbCall' = NoDbCall
    /\ UNCHANGED <<meals, flareups, settings, clearCall, activePage, tlMeals, tlFlareups>>
    /\ UNCHANGED <<pageVars, pendingVars>>
    /\ connections' = IF isBlank(flareup.description) THEN connections
                      ELSE initDB(initDB(connections))

\* addFlareup's write, and the rest of FlareupLogger.handleSave: onSaved
\* reloads the timeline that opened the logger, if it is still mounted
addFlareupDone(id) ==
    /\ ~ClearOpen
    /\ flareupCall.open
    /\ id \notin DOMAIN flareups
    /\ flareups' = addFlareupWrite(flareups, flareupCall.flareup, id,
                                   flareupCall.associatedMealIds)
    /\ flareupCall' = NoCall
    /\ IF flareupCall.mounted
       THEN loadMeals(meals, flareups', activePage)
       ELSE UNCHANGED <<tlMeals, tlFlareups>>
    /\ UNCHANGED <<meals, settings, clearCall, activePage>>
    /\ UNCHANGED <<pageVars, pendingVars, dbCall>>
    /\ connections' = IF flareupCall.mounted THEN initDB(initDB(connections))
                      ELSE connections

\* addFlareup rejects (the read or the write failed): nothing is written,
\* FlareupLogger.handleSave alerts and, in finally, ends saving; the logger
\* stays open with its form
addFlareupFailed ==
    /\ ~ClearOpen
    /\ flareupCall.open
    /\ flareups' = storeAfterFailedAdd(flareups, flareupCall.flareup, 0)
    /\ flareupCall' = NoCall
    /\ dbCall' = Failed("FlareupLogger", flareupCall.mounted)
    /\ UNCHANGED <<meals, settings, clearCall, activePage, tlMeals, tlFlareups>>
    /\ UNCHANGED <<pageVars, pendingVars, connections>>

\* ------------------------------------------------------- TagSelector, used
\* the custom tag field's onChange
setCustomTagInput(text) ==
    /\ activePage = "add-meal"
    /\ text # customTagInput
    /\ customTagInput' = text
    /\ dbCall' = NoDbCall
    /\ UNCHANGED <<storeVars, pendingVars, connections, now, mealType, description, inputMode, supported,
                   sessions, voiceInput, heard, raised, saveSuccess, tags>>

\* a click on the chip of a predefined tag
TagSelector_toggleTag(tag) ==
    /\ activePage = "add-meal"
    /\ includes(PREDEFINED_TAGS, tag)
    /\ tags' = toggled(tags, tag)
    /\ dbCall' = NoDbCall
    /\ UNCHANGED <<storeVars, pendingVars, connections, now, mealType, description, inputMode, supported,
                   sessions, voiceInput, heard, raised, saveSuccess, customTagInput>>

\* addCustomTag (the Add button, or Enter in the field), noted with the input
\* it found
TagSelector_addCustomTag ==
    /\ activePage = "add-meal"
    /\ dbCall' = [fn |-> "addCustomTag", input |-> customTagInput]
    /\ LET trimmed == trim(customTagInput)
           customTag == customPrefix \o trimmed
       IN IF trimmed = <<>>
          THEN UNCHANGED <<tags, customTagInput>>
          ELSE IF includes(PREDEFINED_TAGS, trimmed)
          THEN tags' = toggled(tags, trimmed) /\ customTagInput' = <<>>
          ELSE IF includes(tags, customTag)
          THEN tags' = tags /\ customTagInput' = <<>>
          ELSE tags' = Append(tags, customTag) /\ customTagInput' = <<>>
    /\ UNCHANGED <<storeVars, pendingVars, connections, now, mealType, description, inputMode, supported,
                   sessions, voiceInput, heard, raised, saveSuccess>>

\* the x button of a custom tag's chip
TagSelector_removeTag(tag) ==
    /\ activePage = "add-meal"
    /\ includes(customTags(tags), tag)
    /\ tags' = SelectSeq(tags, LAMBDA t : t # tag)
    /\ dbCall' = NoDbCall
    /\ UNCHANGED <<storeVars, pendingVars, connections, now, mealType, description, inputMode, supported,
                   sessions, voiceInput, heard, raised, saveSuccess, customTagInput>>

\* ------------------------------------------------ a caller of the db module
\* calls of the module's functions with any arguments, each noted with what
\* it was given and what it returned
SettingsPage_updateSettings(updates) ==
    /\ ~ClearOpen
    /\ settings' = updateSettings(settings, updates)
    /\ dbCall' = [fn |-> "updateSettings", updates |-> updates,
                  before |-> getSettings(settings)]
    /\ UNCHANGED <<meals, flareups, flareupCall, clearCall, activePage, tlMeals, tlFlareups>>
    /\ UNCHANGED <<pageVars, pendingVars>>
    /\ connections' = initDB(initDB(connections))

\* updateSettings in two steps, for calls that are not awaited: up to the
\* end of `await getSettings()`, the settings read are held by the call
updateSettingsRead(updates) ==
    /\ ~ClearOpen
    /\ Len(settingsCalls) < MaxSettingsCalls
    /\ settingsCalls' = Append(settingsCalls, [updates |-> updates,
                                               current |-> getSettings(settings)])
    /\ connections' = initDB(initDB(connections))
    /\ dbCall' = NoDbCall
    /\ UNCHANGED <<storeVars, pageVars, isSaving, saveCalls, recentMeals>>

\* the rest of the call c: the merge of what it read with its updates, db.put
updateSettingsWrite(c) ==
    /\ ~ClearOpen
    /\ c \in DOMAIN settingsCalls
    /\ settings' = StorePut(settings, SETTINGS_KEY,
                            shallowMerge(settingsCalls[c].current, settingsCalls[c].updates))
    /\ settingsCalls' = removeAt(settingsCalls, c)
    /\ dbCall' = [fn |-> "updateSettings", updates |-> settingsCalls[c].updates,
                  before |-> settingsCalls[c].current]
    /\ UNCHANGED <<meals, flareups, flareupCall, clearCall, activePage, tlMeals, tlFlareups>>
    /\ UNCHANGED <<pageVars, isSaving, saveCalls, recentMeals, connections>>

Db_getSettings ==
    /\ ~ClearOpen
    /\ settings' = storeAfterGetSettings(settings)
    /\ dbCall' = [fn |-> "getSettings", absent |-> SETTINGS_KEY \notin DOMAIN settings,
                  result |-> getSettings(settings)]
    /\ UNCHANGED <<meals, flareups, flareupCall, clearCall, activePage, tlMeals, tlFlareups>>
    /\ UNCHANGED <<pageVars, pendingVars>>
    /\ connections' = initDB(connections)

\* again: the call before this one was the same call
Db_deleteMeal(id) ==
    /\ ~ClearOpen
    /\ meals' = deleteMeal(meals, id)
    /\ dbCall' = [fn |-> "deleteMeal", id |-> id, present |-> id \in DOMAIN meals,
                  again |-> dbCall.fn = "deleteMeal" /\ dbCall.id = id]
    /\ UNCHANGED <<flareups, settings, flareupCall, clearCall, activePage, tlMeals, tlFlareups>>
    /\ UNCHANGED <<pageVars, pendingVars>>
    /\ connections' = initDB(connections)

Db_deleteFlareup(id) ==
    /\ ~ClearOpen
    /\ flareups' = deleteFlareup(flareups, id)
    /\ dbCall' = [fn |-> "deleteFlareup", id |-> id, present |-> id \in DOMAIN flareups,
                  again |-> dbCall.fn = "deleteFlareup" /\ dbCall.id = id]
    /\ UNCHANGED <<meals, settings, flareupCall, clearCall, activePage, tlMeals, tlFlareups>>
    /\ UNCHANGED <<pageVars, pendingVars>>
    /\ connections' = initDB(connections)

Db_getMealsBeforeTimestamp(beforeTime, limit) ==
    /\ ~ClearOpen
    /\ dbCall' = [fn |-> "getMealsBeforeTimestamp", beforeTime |-> beforeTime,
                  limit |-> limit,
                  result |-> getMealsBeforeTimestamp(meals, beforeTime, limit)]
    /\ UNCHANGED <<meals, flareups, settings, flareupCall, clearCall, activePage,
                   tlMeals, tlFlareups>>
    /\ UNCHANGED <<pageVars, pendingVars>>
    /\ connections' = initDB(connections)

\* ---------------------------------------------------------- clearAllData
\* One readwrite transaction over the three stores.  Its requests run in the
\* order they were made; what they did is visible only when the transaction
\* completes, and no other transaction on these stores runs meanwhile.
ClearOrder == <<STORES.MEALS, STORES.FLAREUPS, STORES.SETTINGS>>
txView(store, name) == IF name \in clearCall.cleared THEN EmptyStore ELSE store

\* db.transaction([...], 'readwrite')
clearAllData ==
    /\ ~ClearOpen
    /\ clearCall' = [open |-> TRUE, cleared |-> {}, last |-> "none"]
    /\ dbCall' = NoDbCall
    /\ UNCHANGED <<meals, flareups, settings, flareupCall, activePage, tlMeals, tlFlareups>>
    /\ UNCHANGED <<pageVars, pendingVars>>
    /\ connections' = initDB(connections)

\* mutant: each clear is a transaction of its own
clearRequestAlone(name) ==
    /\ clearCall' = [clearCall EXCEPT !.cleared = @ \cup {name}]
    /\ meals' = IF name = STORES.MEALS THEN EmptyStore ELSE meals
    /\ flareups' = IF name = STORES.FLAREUPS THEN EmptyStore ELSE flareups
    /\ settings' = IF name = STORES.SETTINGS THEN EmptyStore ELSE settings

\* tx.objectStore(name).clear()
clearRequest(name) ==
    /\ clearCall' = [clearCall EXCEPT !.cleared = @ \cup {name}]
    /\ UNCHANGED <<meals, flareups, settings>>

clearStep ==
    /\ ClearOpen
    /\ Cardinality(clearCall.cleared) < Len(ClearOrder)
    /\ clearRequest(ClearOrder[Cardinality(clearCall.cleared) + 1])
    /\ UNCHANGED <<flareupCall, activePage, tlMeals, tlFlareups>>
    /\ UNCHANGED <<pageVars, pendingVars, dbCall>>
    /\ UNCHANGED connections

\* a request fails or the transaction is aborted: nothing it did is kept,
\* Promise.all / tx.done reject
clearAbort ==
    /\ ClearOpen
    /\ clearCall' = ClearIdle("failed")
    /\ UNCHANGED <<meals, flareups, settings, flareupCall, activePage, tlMeals, tlFlareups>>
    /\ UNCHANGED <<pageVars, pendingVars, dbCall>>
    /\ UNCHANGED connections

\* tx.done resolves
clearCommit ==
    /\ ClearOpen
    /\ Cardinality(clearCall.cleared) = Len(ClearOrder)
    /\ meals' = txView(meals, STORES.MEALS)
    /\ flareups' = txView(flareups, STORES.FLAREUPS)
    /\ settings' = txView(settings, STORES.SETTINGS)
    /\ clearCall' = ClearIdle("done")
    /\ UNCHANGED <<flareupCall, activePage, tlMeals, tlFlareups>>
    /\ UNCHANGED <<pageVars, pendingVars, dbCall>>
    /\ UNCHANGED connections

\* ------------------------------------------------ AddMealPage, VoiceInput
\* the input mode toggle, shown when speech recognition is supported: voice
\* mode mounts a new VoiceInput in place of the textarea, text mode unmounts
\* it; a session it started runs on
SetInputMode(mode) ==
    /\ activePage = "add-meal"
    /\ isSpeechRecognitionSupported
    /\ mode # inputMode
    /\ mode = "voice" => voiceInput.key < MaxMounts
    /\ inputMode' = mode
    /\ voiceInput' = NoVoiceInput(IF mode = "voice" THEN voiceInput.key + 1 ELSE voiceInput.key)
    /\ UNCHANGED <<now, mealType, description, supported, sessions, heard, raised>>
    /\ UNCHANGED <<storeVars, pendingVars, connections, saveSuccess, tagVars, dbCall>>

\* the textarea's onChange
handleDescriptionChange(text) ==
    /\ activePage = "add-meal"
    /\ inputMode = "text"
    /\ text # description
    /\ description' = text
    /\ heard' = NothingHeard(text)
    /\ dbCall' = NoDbCall
    /\ UNCHANGED <<now, mealType, inputMode, supported, sessions, voiceInput, raised>>
    /\ UNCHANGED <<storeVars, pendingVars, connections, saveSuccess, tagVars>>

\* AddMealPage.handleCancel, the discard confirmed where it is asked for
handleCancel(date) ==
    /\ activePage = "add-meal"
    /\ description' = <<>>
    /\ now' = date
    /\ mealType' = guessMealType(date)
    /\ heard' = NothingHeard(<<>>)
    /\ tags' = <<>>
    /\ UNCHANGED <<inputMode, supported, sessions, voiceInput, raised>>
    /\ UNCHANGED <<storeVars, pendingVars, connections, saveSuccess, customTagInput, dbCall>>

\* the VoiceInput that gave a session its callbacks is still the mounted one
VoiceInputMounted(component) ==
    /\ component # NoComponent
    /\ inputMode = "voice"
    /\ voiceInput.key = component
\* VoiceInput's onEnd and onError callbacks (onError after its alert): state
\* is set on the component if it is mounted, and nowhere if it is not
onEnd(component) ==
    voiceInput' = IF VoiceInputMounted(component)
                  THEN NoVoiceInput(voiceInput.key) ELSE voiceInput
onError(component) ==
    voiceInput' = IF VoiceInputMounted(component)
                  THEN NoVoiceInput(voiceInput.key) ELSE voiceInput
\* VoiceInput's onResult callback: onTranscript of the AddMealPage above it
onResult(component, transcript, isFinal) ==
    IF component # NoComponent
    THEN /\ Len(heard.calls) < MaxDeliveries
         /\ description' = handleVoiceTranscript(description, transcript, isFinal)
         /\ heard' = [heard EXCEPT !.calls =
                         Append(@, [transcript |-> transcript, isFinal |-> isFinal])]
    ELSE UNCHANGED <<description, heard>>

\* VoiceInput.handleStart, the button's onClick while not listening (there is
\* no button where speech recognition is not supported): state
\* set by an onError inside the call is overwritten by what follows the call
VoiceInput_handleStart(startThrows) ==
    /\ activePage = "add-meal"
    /\ inputMode = "voice"
    /\ isSpeechRecognitionSupported
    /\ ~voiceInput.isListening
    /\ Len(sessions) < MaxSessions
    /\ sessions' = Append(sessions, startSpeechRecognition(voiceInput.key, startThrows))
    /\ voiceInput' = [voiceInput EXCEPT !.isListening = TRUE,
                                        !.stopRecognition = Len(sessions')]
    /\ UNCHANGED <<now, mealType, description, inputMode, supported, heard, raised>>
    /\ UNCHANGED <<storeVars, pendingVars, connections, saveSuccess, tagVars, dbCall>>

\* VoiceInput.handleStop, the button's onClick while listening
VoiceInput_handleStop(stopThrows) ==
    /\ activePage = "add-meal"
    /\ inputMode = "voice"
    /\ voiceInput.isListening
    /\ voiceInput.stopRecognition # 0
    /\ sessions' = [sessions EXCEPT ![voiceInput.stopRecognition] =
                        stop(@, stopThrows).session]
    /\ raised' = (raised \/ stop(sessions[voiceInput.stopRecognition], stopThrows).raised)
    /\ UNCHANGED <<now, mealType, description, inputMode, supported, voiceInput, heard>>
    /\ UNCHANGED <<storeVars, pendingVars, connections, saveSuccess, tagVars, dbCall>>

\* ---------------------------------------------------- recognition events
\* the browser delivers results while a recognition runs, an error at most
\* once, and the end once, after the error if there was one
RecResult(s, results) ==
    /\ s \in DOMAIN sessions
    /\ sessions[s].phase \in {"started", "stopping"}
    /\ onresult(results) # <<>>
    /\ onResult(sessions[s].component, onresult(results)[1].transcript,
                onresult(results)[1].isFinal)
    /\ UNCHANGED <<now, mealType, inputMode, supported, sessions, voiceInput, raised>>
    /\ UNCHANGED <<storeVars, pendingVars, connections, saveSuccess, tagVars, dbCall>>

RecError(s) ==
    /\ s \in DOMAIN sessions
    /\ sessions[s].phase \in {"started", "stopping"}
    /\ sessions' = [sessions EXCEPT ![s].phase = "errored", ![s].onError = @ + 1]
    /\ onError(sessions[s].component)
    /\ UNCHANGED <<now, mealType, description, inputMode, supported, heard, raised>>
    /\ UNCHANGED <<storeVars, pendingVars, connections, saveSuccess, tagVars, dbCall>>

RecEnd(s) ==
    /\ s \in DOMAIN sessions
    /\ sessions[s].phase \in {"started", "stopping", "errored"}
    /\ sessions' = [sessions EXCEPT ![s].phase = "ended", ![s].onEnd = @ + 1]
    /\ onEnd(sessions[s].component)
    /\ UNCHANGED <<now, mealType, description, inputMode, supported, heard, raised>>
    /\ UNCHANGED <<storeVars, pendingVars, connections, saveSuccess, tagVars, dbCall>>

\* ------------------------------------------- a caller of the speech module
\* startSpeechRecognition called with callbacks of no component, and the
\* returned functions called at any time
Caller_start(startThrows) ==
    /\ Len(sessions) < MaxSessions
    /\ sessions' = Append(sessions, startSpeechRecognition(NoComponent, startThrows))
    /\ UNCHANGED <<now, mealType, description, inputMode, supported, voiceInput,
                   heard, raised>>
    /\ UNCHANGED <<storeVars, pendingVars, connections, saveSuccess, tagVars, dbCall>>

Caller_stop(s, stopThrows) ==
    /\ s \in DOMAIN sessions
    /\ sessions[s].stopCalls < MaxStops
    /\ sessions' = [sessions EXCEPT ![s] =
          [stop(sessions[s], stopThrows).session EXCEPT
              !.stopCalls = @ + 1,
              !.lateStopCalls = IF Over(sessions[s]) THEN @ + 1 ELSE @]]
    /\ raised' = (raised \/ stop(sessions[s], stopThrows).raised)
    /\ UNCHANGED <<now, mealType, description, inputMode, supported, voiceInput, heard>>
    /\ UNCHANGED <<storeVars, pendingVars, connections, saveSuccess, tagVars, dbCall>>

\* ------------------------------------------------- the store specification
MealInputs == [timestamp : Times]
\* a description the forms accept
Described == <<"a">>
FlareupInputs == [timestamp : FlareupTimes, description : {Described}]
SettingsUpdates ==
    {[theme |-> "dark"], [notifications |-> [enabled |-> TRUE]],
     [export |-> [lastExportDate |-> 1]]}
Pages == {"timeline", "add-meal", "settings"}
\* the stores that hold meals, or flare-ups without associations, with the
\* given timestamps
mealsOf(timestamps) ==
    [id \in DOMAIN timestamps |-> addMeal(EmptyStore, [timestamp |-> timestamps[id]], id)[id]]
flareupsOf(timestamps) ==
    [id \in DOMAIN timestamps |->
        addFlareupWrite(EmptyStore, [timestamp |-> timestamps[id]], id, <<>>)[id]]

\* the app as it starts: empty object stores, the add-meal page mounted
\* nothing has called the db module yet: no connection opened, no call in
\* flight, the logger's preview not loaded
NoneInFlight ==
    /\ isSaving = FALSE
    /\ saveCalls = <<>>
    /\ settingsCalls = <<>>
    /\ recentMeals = <<>>
    /\ connections = 0

EmptyStores ==
    /\ meals = EmptyStore
    /\ flareups = EmptyStore
    /\ settings = EmptyStore
    /\ flareupCall = NoCall
    /\ clearCall = ClearIdle("none")
    /\ activePage = "add-meal"
    /\ tlMeals = <<>>
    /\ tlFlareups = <<>>
    /\ dbCall = NoDbCall
    /\ NoneInFlight
Noon == [hours |-> 12, minutes |-> 0]
InitAddMealPage(date, isSupported) ==
    /\ now = date
    /\ mealType = guessMealType(date)
    /\ description = <<>>
    /\ inputMode = "text"
    /\ supported = isSupported
    /\ sessions = <<>>
    /\ voiceInput = NoVoiceInput(0)
    /\ heard = NothingHeard(<<>>)
    /\ raised = FALSE
    /\ saveSuccess = FALSE
    /\ tags = <<>>
    /\ customTagInput = <<>>
InitStore == EmptyStores /\ InitAddMealPage(Noon, TRUE)

NextStore ==
    \/ \E page \in Pages : Navigate(page)
    \/ handleDescriptionChange(Described)
    \/ \E meal \in MealInputs, id \in MealIds : AddMealPage_handleSave(meal, id)
    \/ AddMealPage_resetAfterSave(now)
    \/ \E id \in MealIds : handleDeleteMeal(id)
    \/ \E id \in FlareupIds : handleDeleteFlareup(id)
    \/ \E i \in MealIds, t \in Times : MealEditor_handleSave(i, t, Described)
    \/ \E i \in MealIds : MealEditor_handleDelete(i)
    \/ \E flareup \in FlareupInputs : FlareupLogger_handleSave(flareup)
    \/ \E id \in FlareupIds : addFlareupDone(id)

SpecStore == InitStore /\ [][NextStore]_vars

\* ------------------------------------------------- the clear specification
\* the db module under a caller, over every content of the three stores
recordsOf(ids, timestamps) == UNION {[present -> timestamps] : present \in SUBSET ids}
InitClear ==
    /\ \E timestamps \in recordsOf(MealIds, Times) : meals = mealsOf(timestamps)
    /\ \E timestamps \in recordsOf(FlareupIds, FlareupTimes) : flareups = flareupsOf(timestamps)
    /\ settings \in {EmptyStore, updateSettings(EmptyStore, EmptyStore)}
    /\ flareupCall = NoCall
    /\ clearCall = ClearIdle("none")
    /\ activePage = "settings"
    /\ tlMeals = <<>>
    /\ tlFlareups = <<>>
    /\ InitAddMealPage(Noon, TRUE)
    /\ dbCall = NoDbCall
    /\ NoneInFlight

NextClear ==
    \/ \E updates \in SettingsUpdates : SettingsPage_updateSettings(updates)
    \/ Db_getSettings
    \/ \E id \in MealIds : Db_deleteMeal(id)
    \/ \E id \in FlareupIds : Db_deleteFlareup(id)
    \/ \E beforeTime \in FlareupTimes, limit \in 0..MaxMeals :
          Db_getMealsBeforeTimestamp(beforeTime, limit)
    \/ clearAllData
    \/ clearStep
    \/ clearAbort
    \/ clearCommit

SpecClear == InitClear /\ [][NextClear]_vars

\* ------------------------------------------- the correlation specification
\* addFlareup over every meal store of up to MaxCorrelateMeals meals, opened
\* on the timeline page
\* (the ids of a store count only by their order, so the stores with ids
\* 1..n stand for all)
CorrelateStores == UNION {[1..n -> Times] : n \in 0..MaxCorrelateMeals}

InitCorrelate ==
    /\ \E timestamps \in CorrelateStores : meals = mealsOf(timestamps)
    /\ flareups = EmptyStore
    /\ settings = EmptyStore
    /\ flareupCall = NoCall
    /\ clearCall = ClearIdle("none")
    /\ activePage = "timeline"
    /\ tlMeals = getMeals(meals)
    /\ tlFlareups = <<>>
    /\ InitAddMealPage(Noon, TRUE)
    /\ dbCall = NoDbCall
    /\ NoneInFlight

NextCorrelate ==
    \/ \E flareup \in FlareupInputs : FlareupLogger_handleSave(flareup)
    \/ \E id \in FlareupIds : addFlareupDone(id)
    \/ \E id \in FlareupIds : handleDeleteFlareup(id)

SpecCorrelate == InitCorrelate /\ [][NextCorrelate]_vars

\* ----------------------------------------------- the listing specification
\* getMeals and getFlareups, as the timeline page loads them, over every pair
\* of stores of up to MaxListed records
ListedTimes == 0..(MaxTime + 1)
ListedStores == recordsOf(1..MaxListed, ListedTimes)

InitListing ==
    /\ \E timestamps \in ListedStores : meals = mealsOf(timestamps)
    /\ \E timestamps \in ListedStores : flareups = flareupsOf(timestamps)
    /\ settings = EmptyStore
    /\ flareupCall = NoCall
    /\ clearCall = ClearIdle("none")
    /\ activePage = "add-meal"
    /\ tlMeals = <<>>
    /\ tlFlareups = <<>>
    /\ InitAddMealPage(Noon, TRUE)
    /\ dbCall = NoDbCall
    /\ NoneInFlight

NextListing == \E page \in Pages : Navigate(page)

SpecListing == InitListing /\ [][NextListing]_vars

\* ------------------------------------------------- the guess specification
\* guessMealType at every time of the day, through the form reset that calls it
InitGuess == EmptyStores /\ \E date \in Dates : InitAddMealPage(date, TRUE)
NextGuess == \E date \in Dates : handleCancel(date)
SpecGuess == InitGuess /\ [][NextGuess]_vars

\* ------------------------------------------------ the speech specification
\* the speech module under a caller that starts sessions, and calls the
\* returned functions, at any time
\* the results of a recognition event: each a transcript, final or interim
Result(transcript, isFinal) == [transcript |-> transcript, isFinal |-> isFinal]
Events ==
    {<<Result(<<" ", "b">>, TRUE)>>,
     <<Result(<<>>, TRUE)>>,
     <<Result(<<>>, FALSE)>>,
     <<Result(<<"b">>, TRUE), Result(<<" ", "c">>, TRUE), Result(<<"b">>, FALSE)>>,
     <<Result(<<"b">>, FALSE), Result(<<" ", "c">>, FALSE)>>}
InitSpeech == EmptyStores /\ \E isSupported \in BOOLEAN : InitAddMealPage(Noon, isSupported)
NextSpeech ==
    \/ \E startThrows \in BOOLEAN : Caller_start(startThrows)
    \/ \E s \in 1..MaxSessions, stopThrows \in BOOLEAN : Caller_stop(s, stopThrows)
    \/ \E s \in 1..MaxSessions, results \in Events : RecResult(s, results)
    \/ \E s \in 1..MaxSessions : RecError(s)
    \/ \E s \in 1..MaxSessions : RecEnd(s)
SpecSpeech == InitSpeech /\ [][NextSpeech]_vars

\* ------------------------------------------------- the voice specification
\* the add-meal page with its voice input
Texts == {<<>>, <<"a">>}
InitVoice == EmptyStores /\ \E isSupported \in BOOLEAN : InitAddMealPage(Noon, isSupported)
NextVoice ==
    \/ \E mode \in {"text", "voice"} : SetInputMode(mode)
    \/ \E text \in Texts : handleDescriptionChange(text)
    \/ handleCancel(now)
    \/ \E startThrows \in BOOLEAN : VoiceInput_handleStart(startThrows)
    \/ \E stopThrows \in BOOLEAN : VoiceInput_handleStop(stopThrows)
    \/ \E s \in 1..MaxSessions, results \in Events : RecResult(s, results)
    \/ \E s \in 1..MaxSessions : RecError(s)
    \/ \E s \in 1..MaxSessions : RecEnd(s)
SpecVoice == InitVoice /\ [][NextVoice]_vars

\* ------------------------------------------------- the forms specification
\* the three forms filled in with any text, blank ones among them; the meals
\* are added at time 0, edited to a later time and the flare-ups logged later
FormTexts == {<<>>, <<" ">>, <<"a">>, <<" ", "b", " ">>}
Later == MaxTime + 1
InitForms == EmptyStores /\ InitAddMealPage(Noon, TRUE)
NextForms ==
    \/ \E page \in {"add-meal", "timeline"} : Navigate(page)
    \/ \E text \in FormTexts : handleDescriptionChange(text)
    \/ \E id \in MealIds : AddMealPage_handleSave([timestamp |-> 0], id)
    \/ AddMealPage_resetAfterSave(now)
    \/ \E i \in MealIds, text \in FormTexts : MealEditor_handleSave(i, Later, text)
    \/ \E text \in FormTexts :
          FlareupLogger_handleSave([timestamp |-> Later, description |-> text])
    \/ \E id \in FlareupIds : addFlareupDone(id)
SpecForms == InitForms /\ [][NextForms]_vars

\* ----------------------------------------------- the dictation specification
\* the add-meal page with a description typed or dictated, and saved
Dictation == {<<Result(<<"b">>, TRUE)>>, <<Result(<<"b">>, FALSE)>>}
InitDictate == EmptyStores /\ InitAddMealPage(Noon, TRUE)
NextDictate ==
    \/ \E mode \in {"text", "voice"} : SetInputMode(mode)
    \/ handleDescriptionChange(Described)
    \/ VoiceInput_handleStart(FALSE)
    \/ \E s \in 1..MaxSessions, results \in Dictation : RecResult(s, results)
    \/ \E id \in MealIds : AddMealPage_handleSave([timestamp |-> 0], id)
    \/ AddMealPage_resetAfterSave(now)
SpecDictate == InitDictate /\ [][NextDictate]_vars

\* -------------------------------------------------- the tags specification
\* the tag selector of the add-meal page: what is typed into the custom tag
\* field, and the chips clicked
TagInputs ==
    {<<>>, <<" ">>, <<" ", "x", " ">>, <<"c", "u", "s", "t", "o", "m", ":", " ", "x">>,
     <<"d", "a", "i", "r", "y">>, <<"o", "i", "l", "y", " ">>}
TagChips == {<<"d", "a", "i", "r", "y">>, <<"f", "i", "s", "h">>}
InitTags == EmptyStores /\ InitAddMealPage(Noon, TRUE)
NextTags ==
    \/ \E text \in TagInputs : setCustomTagInput(text)
    \/ \E tag \in TagChips : TagSelector_toggleTag(tag)
    \/ TagSelector_addCustomTag
    \/ \E text \in TagInputs : TagSelector_removeTag(customPrefix \o trim(text))
    \/ handleCancel(now)
SpecTags == InitTags /\ [][NextTags]_vars

\* --------------------------------------------- the settings specification
\* callers of updateSettings that do not await each other, next to callers
\* that do
InitSettings ==
    /\ EmptyStores
    /\ InitAddMealPage(Noon, TRUE)
NextSettings ==
    \/ \E updates \in SettingsUpdates : updateSettingsRead(updates)
    \/ \E c \in 1..MaxSettingsCalls : updateSettingsWrite(c)
    \/ \E updates \in SettingsUpdates : SettingsPage_updateSettings(updates)
    \/ Db_getSettings
SpecSettings == InitSettings /\ [][NextSettings]_vars

\* ---------------------------------------------- the preview specification
\* the flare-up logger opened on a timeline over the stores of the
\* correlation specification, and saved
NextPreview ==
    \/ FlareupLogger_loadRecentMeals
    \/ \E flareup \in FlareupInputs : FlareupLogger_handleSave(flareup)
    \/ \E id \in FlareupIds : addFlareupDone(id)
    \/ \E id \in FlareupIds : handleDeleteFlareup(id)
SpecPreview == InitCorrelate /\ [][NextPreview]_vars

\* ----------------------------------------------- the saving specification
\* the forms with the db calls of their save handlers pending until they
\* resolve or reject
SavingTexts == {<<>>, <<"a">>}
SavingChips == {<<"f", "i", "s", "h">>}
NextSaving ==
    \/ \E page \in {"add-meal", "timeline"} : Navigate(page)
    \/ \E text \in SavingTexts : handleDescriptionChange(text)
    \/ AddMealPage_onSubmit(0)
    \/ AddMealPage_handleDescriptionKeyDown(0)
    \/ \E c \in 1..MaxSaveCalls, id \in MealIds, ok \in BOOLEAN : addMealSettled(c, id, ok)
    \/ AddMealPage_resetAfterSave(now)
    \/ \E tag \in SavingChips : TagSelector_toggleTag(tag)
    \/ FlareupLogger_handleSave([timestamp |-> Later, description |-> Described])
    \/ \E id \in FlareupIds : addFlareupDone(id)
    \/ addFlareupFailed
SpecSaving == InitForms /\ [][NextSaving]_vars

\* ------------------------------------------------------------------ claims
NoDuplicates(seq) == \A i, j \in 1..Len(seq) : seq[i] = seq[j] => i = j

\* C1: the associatedMealIds of a stored flare-up with timestamp T are the
\* ids of the at most 6 meals with timestamp < T that have the greatest
\* timestamps, in descending timestamp order; no meal with timestamp >= T
\* is among them.
Qualifying(store, T) == {id \in DOMAIN store : store[id].timestamp < T}
MostRecentBefore(ids, store, T) ==
    /\ Len(ids) = MinOf(6, Cardinality(Qualifying(store, T)))
    /\ NoDuplicates(ids)
    /\ Range(ids) \subseteq Qualifying(store, T)
    /\ \A i, j \in 1..Len(ids) : i < j => store[ids[i]].timestamp >= store[ids[j]].timestamp
    /\ \A id \in Qualifying(store, T) \ Range(ids) :
          \A i \in 1..Len(ids) : store[id].timestamp <= store[ids[i]].timestamp
C1_AssociatesMostRecentBefore ==
    \A id \in DOMAIN flareups :
        MostRecentBefore(flareups[id].associatedMealIds, meals, flareups[id].timestamp)
C1_Witness ==
    \E id \in DOMAIN flareups :
        LET ids == flareups[id].associatedMealIds
        IN /\ Len(ids) = 6
           /\ Qualifying(meals, flareups[id].timestamp) \ Range(ids) # {}
           /\ meals[ids[1]].timestamp > meals[ids[6]].timestamp

Referenced(id) == \E f \in DOMAIN flareups : id \in Range(flareups[f].associatedMealIds)
Resolve(ids, store) ==
    LET kept == SelectSeq(ids, LAMBDA id : id \in DOMAIN store)
    IN [i \in 1..Len(kept) |-> store[kept[i]]]
C3_DeleteLeavesDanglingReference ==
    [][(TimelineMounted /\ \E id \in DOMAIN meals \ DOMAIN meals' : Referenced(id)) =>
          /\ flareups' = flareups
          /\ \A i \in 1..Len(tlFlareups') :
                getAssociatedMeals(tlFlareups'[i], tlMeals')
                    = Resolve(tlFlareups'[i].associatedMealIds, meals')]_vars
C3_Witness ==
    /\ TimelineMounted
    /\ \E i \in 1..Len(tlFlareups) :
          /\ tlFlareups[i] = flareups[tlFlareups[i].id]
          /\ Len(tlFlareups[i].associatedMealIds) = 2
          /\ Len(getAssociatedMeals(tlFlareups[i], tlMeals)) = 1
          /\ Range(tlFlareups[i].associatedMealIds) \ DOMAIN meals # {}

\* C4: getMeals and getFlareups return every stored record exactly once, in
\* an order in which the timestamps never increase.
ListsNewestFirst(list, store) ==
    /\ Len(list) = Cardinality(DOMAIN store)
    /\ \A id \in DOMAIN store : \E i \in 1..Len(list) : list[i] = store[id]
    /\ \A i \in 1..Len(list) : list[i].id \in DOMAIN store /\ list[i] = store[list[i].id]
    /\ NoDuplicates(list)
    /\ \A i, j \in 1..Len(list) : i < j => list[i].timestamp >= list[j].timestamp
C4_GetAllNewestFirst ==
    TimelineMounted => /\ ListsNewestFirst(tlMeals, meals)
                       /\ ListsNewestFirst(tlFlareups, flareups)
C4_Witness ==
    /\ TimelineMounted
    /\ Len(tlMeals) = 3 /\ Len(tlFlareups) = 3
    /\ tlMeals[1].id > tlMeals[2].id /\ tlMeals[1].timestamp > tlMeals[2].timestamp
    /\ tlMeals[2].timestamp = tlMeals[3].timestamp
    /\ tlFlareups[1].timestamp = tlFlareups[2].timestamp
    /\ tlFlareups[2].id > tlFlareups[3].id

\* C16: the timeline's date buckets hold every loaded meal and flare-up exactly
\* once; inside a bucket the items are in descending timestamp order, and items
\* of equal timestamp keep their loaded order, meals before flare-ups
positionIn(seq, item) == CHOOSE i \in 1..Len(seq) : seq[i] = item
bucketItems(groups) == {<<g, i>> : g \in 1..Len(groups), i \in 1..(MaxListed + MaxListed)}
inBucket(groups) == {p \in bucketItems(groups) : p[2] <= Len(groups[p[1]].items)}
GroupsEveryItemOnceInOrder(groups, loaded) ==
    /\ \A k \in 1..Len(loaded) :
          Cardinality({p \in inBucket(groups) : groups[p[1]].items[p[2]] = loaded[k]}) = 1
    /\ Cardinality(inBucket(groups)) = Len(loaded)
    /\ \A g, h \in 1..Len(groups) : g # h => groups[g].dateKey # groups[h].dateKey
    /\ \A g \in 1..Len(groups) :
          /\ groups[g].items # <<>>
          /\ \A i \in 1..Len(groups[g].items) :
                formatDate(groups[g].items[i].timestamp) = groups[g].dateKey
          /\ \A i, j \in 1..Len(groups[g].items) : i < j =>
                /\ groups[g].items[i].timestamp >= groups[g].items[j].timestamp
                /\ groups[g].items[i].timestamp = groups[g].items[j].timestamp
                      => positionIn(loaded, groups[g].items[i])
                             < positionIn(loaded, groups[g].items[j])
LoadedItems ==
    [i \in 1..(Len(tlMeals) + Len(tlFlareups)) |->
        IF i <= Len(tlMeals)
        THEN [itemType |-> "meal"] @@ tlMeals[i]
        ELSE [itemType |-> "flareup"] @@ tlFlareups[i - Len(tlMeals)]]
C16_TimelineGroupsEveryItemOnce ==
    TimelineMounted =>
        GroupsEveryItemOnceInOrder(groupedItems(timelineItems(tlMeals, tlFlareups)),
                                   LoadedItems)
C16_Witness ==
    /\ TimelineMounted
    /\ LET groups == groupedItems(timelineItems(tlMeals, tlFlareups)) IN
       /\ Len(groups) >= 2
       /\ \E g \in 1..Len(groups) : \E i, j, k \in 1..Len(groups[g].items) :
             /\ i < j /\ j < k
             /\ groups[g].items[i].timestamp > groups[g].items[j].timestamp
             /\ groups[g].items[j].timestamp = groups[g].items[k].timestamp
             /\ groups[g].items[j].itemType = "meal"
             /\ groups[g].items[k].itemType = "flareup"

\* C17: a save whose required text is empty after trimming starts no write,
\* in the add-meal form, the meal editor and the flare-up logger alike; every
\* meal and flare-up these forms store has a description that is non-empty
\* and trimmed
AllSpaces(text) == \A i \in 1..Len(text) : text[i] = Space[1]
NonEmptyTrimmed(text) ==
    /\ text # <<>>
    /\ text[1] # Space[1]
    /\ text[Len(text)] # Space[1]
C17_BlankTextNeverSaved ==
    [][/\ \A id \in DOMAIN meals' : NonEmptyTrimmed(meals'[id].description)
       /\ \A id \in DOMAIN flareups' : NonEmptyTrimmed(flareups'[id].description)
       /\ flareupCall'.open => NonEmptyTrimmed(flareupCall'.flareup.description)
       /\ (dbCall'.fn = "alert" /\ dbCall' # dbCall)
             => UNCHANGED <<meals, flareups, flareupCall>>
       /\ (activePage = "add-meal" /\ AllSpaces(description)) => meals' = meals]_vars
C17_Witness ==
    /\ dbCall.fn = "alert"
    /\ dbCall.form = "FlareupLogger"
    /\ \E id \in DOMAIN meals : meals[id].description = <<"b">>
    /\ \E id \in DOMAIN meals : meals[id].description = <<"a">>

\* C20: a save in the meal editor changes neither the id nor the type of the
\* meal it edits, and adds no record: the meal keeps its id, a meal logged as
\* text stays text
C20_EditKeepsIdAndType ==
    [][\A id \in DOMAIN meals :
          (id \in DOMAIN meals' /\ meals'[id] # meals[id]) =>
              /\ meals'[id].id = id
              /\ meals'[id].type = meals[id].type
              /\ DOMAIN meals' = DOMAIN meals]_vars
C20_Witness ==
    /\ TimelineMounted
    /\ \E id \in DOMAIN meals :
          /\ meals[id].timestamp = Later
          /\ meals[id].description = <<"b">>
          /\ meals[id].id = id
          /\ meals[id].type = "text"
    /\ \E id \in DOMAIN meals : meals[id].timestamp = 0

\* C18: a custom tag round-trips: submitting a text whose trimmed form s is
\* non-empty and not a predefined tag leaves the tag "custom: " followed by s
\* among the selected tags, once, and the label shown for that tag, the tag
\* with the prefix stripped, is exactly s
Prefixed(text) ==
    <<"c", "u", "s", "t", "o", "m", ":", " ">> \o text
C18_CustomTagRoundTrip ==
    [][(dbCall'.fn = "addCustomTag"
           /\ dbCall'.input = customTagInput
           /\ NonEmptyTrimmed(trim(customTagInput))
           /\ ~includes(PREDEFINED_TAGS, trim(customTagInput)))
       => LET s == trim(customTagInput) IN
          /\ Cardinality({i \in 1..Len(tags') : tags'[i] = Prefixed(s)}) = 1
          /\ includes(customTags(tags'), Prefixed(s))
          /\ label(Prefixed(s)) = s
          /\ \A i \in 1..Len(tags) : tags'[i] = tags[i]
          /\ customTagInput' = <<>>]_vars
C18_Witness ==
    /\ dbCall.fn = "addCustomTag"
    /\ trim(dbCall.input) = <<"c", "u", "s", "t", "o", "m", ":", " ", "x">>
    /\ Len(tags) = 4
    /\ tags[4] = Prefixed(trim(dbCall.input))
    /\ includes(tags, Prefixed(<<"x">>))
    /\ includes(tags, <<"d", "a", "i", "r", "y">>)

\* C19: a meal's type records where its description came from: a meal saved
\* with a description that was dictated is stored with type 'voice', one
\* saved with a description that was typed with type 'text'
Dictated ==
    /\ heard.base = <<>>
    /\ \E i \in 1..Len(heard.calls) :
          heard.calls[i].isFinal /\ heard.calls[i].transcript # <<>>
Typed == heard.base # <<>> /\ heard.calls = <<>>
C19_TypeRecordsProvenance ==
    [][\A id \in DOMAIN meals' \ DOMAIN meals :
          /\ Dictated => meals'[id].type = "voice"
          /\ Typed => meals'[id].type = "text"]_vars

\* C6: clearAllData is all-or-nothing: while it runs no store shows a partial
\* clear, when it fails every store holds what it held, and when it succeeds
\* the three stores are empty.
stores == <<meals, flareups, settings>>
C6_ClearAllOrNothing ==
    [][ClearOpen =>
          /\ clearCall'.open => stores' = stores
          /\ (~clearCall'.open /\ clearCall'.last = "failed") => stores' = stores
          /\ (~clearCall'.open /\ clearCall'.last # "failed") =>
                /\ clearCall'.last = "done"
                /\ meals' = EmptyStore /\ flareups' = EmptyStore /\ settings' = EmptyStore]_vars
C6_Witness ==
    /\ clearCall.last = "failed"
    /\ meals # EmptyStore /\ flareups # EmptyStore /\ settings # EmptyStore

\* C5: guessMealType gives every time of the day the category of its range:
\* 05:00 up to but excluding 10:30 is breakfast, 10:30 up to but excluding
\* 15:00 lunch, 15:00 up to but excluding 21:00 dinner, and 21:00 through
\* 04:59 snack; 10:29 is breakfast and 10:30 is lunch.
MinuteOfDay(date) == 60 * date.hours + date.minutes
CategoryAt(minute) ==
    IF 5 * 60 <= minute /\ minute < 10 * 60 + 30 THEN "breakfast"
    ELSE IF 10 * 60 + 30 <= minute /\ minute < 15 * 60 THEN "lunch"
    ELSE IF 15 * 60 <= minute /\ minute < 21 * 60 THEN "dinner"
    ELSE "snack"
C5_GuessBoundaries == mealType = CategoryAt(MinuteOfDay(now))

\* C7: onEnd is called at most once for a session, and exactly once by the
\* time the session is over, also when onError was called for it.
C7_OnEndExactlyOnce ==
    \A s \in DOMAIN sessions :
        /\ sessions[s].onEnd <= 1
        /\ Over(sessions[s]) => sessions[s].onEnd = 1

\* C8: a result or an error delivered by a session whose VoiceInput is no
\* longer mounted is discarded: the form state stays as it is and no error is
\* raised.
FormState == <<description, mealType, inputMode>>
StaleResult == inputMode = "text" /\ Len(heard'.calls) > Len(heard.calls)
StaleError ==
    \E s \in DOMAIN sessions :
        /\ ~VoiceInputMounted(sessions[s].component)
        /\ sessions'[s].onError > sessions[s].onError
C8_StaleCallbackDiscarded ==
    [][(StaleResult \/ StaleError) => FormState' = FormState /\ raised' = raised]_vars

\* C9: the description is the text it had before the transcripts came,
\* followed by every final transcript in the order of delivery, joined with
\* single spaces (nothing is joined to an empty text); interim transcripts add
\* nothing.
finalTranscripts(calls) ==
    LET finals == SelectSeq(calls, LAMBDA call : call.isFinal)
    IN [i \in 1..Len(finals) |-> finals[i].transcript]
RECURSIVE DropEmptyStart(_)
DropEmptyStart(texts) ==
    IF texts # <<>> /\ Head(texts) = <<>> THEN DropEmptyStart(Tail(texts)) ELSE texts
RECURSIVE JoinedBySpace(_)
JoinedBySpace(texts) ==
    IF texts = <<>> THEN <<>>
    ELSE IF Len(texts) = 1 THEN texts[1]
    ELSE JoinedBySpace(SubSeq(texts, 1, Len(texts) - 1)) \o Space \o texts[Len(texts)]
C9_DescriptionAccumulatesFinals ==
    description = JoinedBySpace(DropEmptyStart(<<heard.base>> \o finalTranscripts(heard.calls)))
C9_Witness ==
    /\ heard.base # <<>>
    /\ \E i, j, k \in 1..Len(heard.calls) :
          /\ i < j /\ j < k
          /\ heard.calls[i].isFinal /\ heard.calls[i].transcript # <<>>
          /\ ~heard.calls[j].isFinal /\ heard.calls[j].transcript # <<>>
          /\ heard.calls[k].isFinal /\ heard.calls[k].transcript # <<>>

\* C10: a call of the function startSpeechRecognition returned raises no
\* error, whenever it is made; made after the session is over, it changes
\* nothing: no callback is called, no session starts.
C10_StopIsSafe ==
    [][\A s \in DOMAIN sessions :
          sessions'[s].stopCalls # sessions[s].stopCalls =>
              /\ ~raised'
              /\ Over(sessions[s]) =>
                    /\ sessions' = [sessions EXCEPT ![s].stopCalls = @ + 1,
                                                    ![s].lateStopCalls = @ + 1]
                    /\ UNCHANGED <<storeVars, pendingVars, connections, now, mealType, description, inputMode,
                                   supported, voiceInput, heard, saveSuccess, dbCall>>]_vars
C10_Witness ==
    \E s \in DOMAIN sessions :
        /\ sessions[s].phase = "ended"
        /\ sessions[s].onEnd = 1
        /\ sessions[s].lateStopCalls >= 2
        /\ sessions[s].stopCalls > sessions[s].lateStopCalls
        /\ ~raised

\* C11: where speech recognition is not supported, nothing done on the
\* add-meal page calls startSpeechRecognition: the page stays in text mode.
C11_NoStartWhenUnsupported ==
    ~supported => sessions = <<>> /\ inputMode = "text" /\ ~voiceInput.isListening
C11_Witness == ~supported /\ description # <<>> /\ activePage = "add-meal"

\* C12: updateSettings stores the settings read before the call with every
\* top-level key of the updates replaced by the supplied value as a whole
\* and every other key as it was; a supplied nested object replaces the
\* nested object that was there.
C12_UpdateSettingsShallowMerge ==
    dbCall.fn = "updateSettings" =>
        /\ DOMAIN settings = {SETTINGS_KEY}
        /\ DOMAIN settings[SETTINGS_KEY] = DOMAIN dbCall.before \cup DOMAIN dbCall.updates
        /\ \A k \in DOMAIN settings[SETTINGS_KEY] :
              settings[SETTINGS_KEY][k] =
                  IF k \in DOMAIN dbCall.updates THEN dbCall.updates[k] ELSE dbCall.before[k]
C12_Witness ==
    /\ dbCall.fn = "updateSettings"
    /\ "notifications" \in DOMAIN dbCall.updates
    /\ "permission" \in DOMAIN dbCall.before.notifications
    /\ DOMAIN settings[SETTINGS_KEY].notifications = {"enabled"}
    /\ settings[SETTINGS_KEY].theme = "dark"

\* C13, as stated: with no settings record, getSettings creates the record
\* with the default values and returns it, and the store then holds exactly
\* that one record.
C13_FirstReadCreatesDefaults ==
    (dbCall.fn = "getSettings" /\ dbCall.absent) =>
        /\ dbCall.result = DEFAULT_SETTINGS
        /\ DOMAIN settings = {SETTINGS_KEY}
        /\ settings[SETTINGS_KEY] = DEFAULT_SETTINGS
\* C13, amended: with no settings record, getSettings returns the default
\* values and creates nothing: the settings store stays empty.
C13_FirstReadReturnsDefaults ==
    (dbCall.fn = "getSettings" /\ dbCall.absent) =>
        /\ dbCall.result = DEFAULT_SETTINGS
        /\ settings = EmptyStore
C13_Witness == dbCall.fn = "getSettings" /\ dbCall.absent /\ meals # EmptyStore

\* C14: a deleteMeal or deleteFlareup of an id that is not in its store, a
\* second delete of the same id among them, leaves every store unchanged; a
\* delete of an id that is there removes that record and nothing else.
DeleteCalled == dbCall' # dbCall /\ dbCall'.fn \in {"deleteMeal", "deleteFlareup"}
WithoutId(store, id) == [k \in DOMAIN store \ {id} |-> store[k]]
C14_DeleteIdempotent ==
    [][DeleteCalled =>
          /\ (dbCall'.again \/ ~dbCall'.present) => stores' = stores
          /\ dbCall'.fn = "deleteMeal" =>
                meals' = WithoutId(meals, dbCall'.id) /\ UNCHANGED <<flareups, settings>>
          /\ dbCall'.fn = "deleteFlareup" =>
                flareups' = WithoutId(flareups, dbCall'.id) /\ UNCHANGED <<meals, settings>>]_vars
C14_Witness ==
    /\ dbCall.fn = "deleteMeal"
    /\ dbCall.again
    /\ ~dbCall.present
    /\ meals # EmptyStore
    /\ flareups # EmptyStore

\* C15: getMealsBeforeTimestamp(t, limit) returns stored meals with a
\* timestamp below t, min(limit, the number there are) of them, newest first,
\* and no meal with a timestamp below t that it leaves out is newer than one
\* it returns.
MostRecentBeforeUpTo(result, store, T, limit) ==
    /\ Len(result) = MinOf(limit, Cardinality(Qualifying(store, T)))
    /\ \A i \in 1..Len(result) :
          /\ result[i].id \in Qualifying(store, T)
          /\ result[i] = store[result[i].id]
    /\ \A i, j \in 1..Len(result) :
          i < j => result[i].id # result[j].id /\ result[i].timestamp >= result[j].timestamp
    /\ \A id \in Qualifying(store, T) \ idsOf(result) :
          \A i \in 1..Len(result) : store[id].timestamp <= result[i].timestamp
C15_GetBeforeNewestFirst ==
    dbCall.fn = "getMealsBeforeTimestamp" =>
        MostRecentBeforeUpTo(dbCall.result, meals, dbCall.beforeTime, dbCall.limit)
C15_Witness ==
    /\ dbCall.fn = "getMealsBeforeTimestamp"
    /\ Len(dbCall.result) = 1
    /\ Qualifying(meals, dbCall.beforeTime) \ idsOf(dbCall.result) # {}
    /\ \E id \in DOMAIN meals : meals[id].timestamp < dbCall.result[1].timestamp

\* C21: the database is opened lazily on first use and one connection is
\* reused: over any sequence of store operations it is opened at most once
C21_OpenedAtMostOnce == connections <= 1

\* C25: VoiceInput never stays listening without a live session: after every
\* onError delivered to the mounted component, also one delivered inside the
\* startSpeechRecognition call itself, the component is idle (not listening,
\* no stop function stored)
onErrorCalls(all, s) == IF s \in DOMAIN all THEN all[s].onError ELSE 0
C25_ErrorEndsIdle ==
    [][\A s \in DOMAIN sessions' :
          (/\ VoiceInputMounted(sessions'[s].component)
           /\ onErrorCalls(sessions', s) > onErrorCalls(sessions, s))
          => voiceInput' = NoVoiceInput(voiceInput.key)]_vars

\* C26: at most one session started by the mounted VoiceInput is active at
\* any time, and while one is active the component is listening: the late
\* onEnd of an earlier session does not put it idle
ActiveSessions ==
    {s \in DOMAIN sessions :
        /\ VoiceInputMounted(sessions[s].component)
        /\ sessions[s].phase \in {"started", "stopping"}}
C26_OneActiveSession ==
    /\ Cardinality(ActiveSessions) <= 1
    /\ ActiveSessions # {} => voiceInput.isListening

\* C28: one filled-in entry is stored at most once: while the success banner
\* of a save is shown (the form is not yet reset), no save stores a second
\* meal with the content of a meal already stored
Content(meal) == <<meal.description, meal.mealType, meal.tags>>
C28_EntryStoredOnce ==
    [][saveSuccess =>
          \A id \in DOMAIN meals' \ DOMAIN meals :
              \A stored \in DOMAIN meals : Content(meals'[id]) # Content(meals[stored])]_vars

\* C30: starting from a duplicate-free tag list every toggleTag, addCustomTag
\* and removeTag keeps it duplicate-free, and after addCustomTag with an
\* input whose trimmed form is not empty the corresponding tag is selected:
\* the predefined tag itself when the input is one, else the prefixed tag
CorrespondingTag(text) ==
    IF includes(PREDEFINED_TAGS, trim(text)) THEN trim(text) ELSE Prefixed(trim(text))
C30_TagsUniqueAndAdded ==
    [][/\ NoDuplicates(tags) => NoDuplicates(tags')
       /\ (/\ dbCall'.fn = "addCustomTag"
           /\ dbCall'.input = customTagInput
           /\ NonEmptyTrimmed(trim(customTagInput)))
          => includes(tags', CorrespondingTag(customTagInput))]_vars

\* C23: a flare-up becomes visible in one write that already carries its
\* associations: addFlareup reads the meals before it writes, nothing of the
\* flare-up is in the store between the read and the write, and the record
\* the write adds has the associatedMealIds computed from the meals read
C23_WrittenWithAssociations ==
    [][/\ (~flareupCall.open /\ flareupCall'.open) =>
             /\ flareups' = flareups
             /\ flareupCall'.associatedMealIds =
                   mapIds(getMealsBeforeTimestamp(meals, flareupCall'.flareup.timestamp, 6))
       /\ (flareupCall.open /\ flareupCall'.open) => flareups' = flareups
       /\ \A id \in DOMAIN flareups' \ DOMAIN flareups :
             /\ flareupCall.open
             /\ flareups'[id].timestamp = flareupCall.flareup.timestamp
             /\ flareups'[id].associatedMealIds = flareupCall.associatedMealIds]_vars
C23_Witness ==
    /\ ~flareupCall.open
    /\ \E id \in DOMAIN flareups :
          /\ Len(flareups[id].associatedMealIds) = 1
          /\ Cardinality(Qualifying(meals, flareups[id].timestamp)) = 2

\* C29: two updateSettings calls that change different top-level keys and do
\* not await each other both take effect, however their reads and writes
\* interleave: the write of a call leaves every key it does not change with
\* the value the store had, so what the other call wrote stays
C29_ConcurrentUpdatesBothApply ==
    [][Len(settingsCalls') < Len(settingsCalls) =>
          \A k \in DOMAIN getSettings(settings) \ DOMAIN dbCall'.updates :
              settings'[SETTINGS_KEY][k] = getSettings(settings)[k]]_vars

\* C24: every meal in the logger's preview, loaded when the modal opened, has
\* its id among the associatedMealIds of the flare-up that is saved
C24_PreviewIsAssociated ==
    [][\A id \in DOMAIN flareups' \ DOMAIN flareups :
          idsOf(recentMeals) \subseteq Range(flareups'[id].associatedMealIds)]_vars

\* C22: a storage failure during a save is terminal: the write was attempted
\* once and is not tried again (the call is gone and no connection is opened
\* for another), nothing is added to the store, the form keeps its values,
\* the success banner is not set, and the saving flag is false again; the
\* same for a failed save of the flare-up logger
FormValues == <<description, mealType, tags, inputMode>>
AddMealFailed ==
    /\ dbCall'.fn = "failed" /\ dbCall'.form = "AddMealPage"
    /\ Len(saveCalls') < Len(saveCalls)
AddFlareupFailed ==
    /\ dbCall'.fn = "failed" /\ dbCall'.form = "FlareupLogger"
    /\ flareupCall.open /\ ~flareupCall'.open
C22_FailedSaveIsTerminal ==
    [][/\ AddMealFailed =>
             /\ meals' = meals
             /\ Len(saveCalls') = Len(saveCalls) - 1
             /\ connections' = connections
             /\ FormValues' = FormValues
             /\ saveSuccess' = saveSuccess
             /\ dbCall'.mounted => ~isSaving'
       /\ AddFlareupFailed =>
             /\ flareups' = flareups
             /\ tlFlareups' = tlFlareups
             /\ connections' = connections
             /\ saveCalls' = saveCalls]_vars
C22_Witness ==
    /\ dbCall = Failed("AddMealPage", TRUE)
    /\ meals = EmptyStore
    /\ saveCalls = <<>>
    /\ description = <<"a">>
    /\ tags # <<>>
    /\ ~saveSuccess
    /\ ~isSaving

\* C27: at most one addMeal call of the page is in flight: while isSaving is
\* set none of the save triggers (the Save button, the form's submit,
\* Cmd/Ctrl+Enter in the description) starts a second one
C27_OneSaveInFlight ==
    Len(SelectSeq(saveCalls, LAMBDA call : call.mounted)) <= 1

=============================================================================
